---- MODULE Spec2Model ----
(***************************************************************************)
(* Model of terraform-provider-ollama: the provider's Configure, the       *)
(* model resource's Configure/Create/Read/Update/Delete and the model list *)
(* data source's Configure/Read, together with the Ollama daemon they      *)
(* call (pull, show, delete, list) and the process environment.            *)
(*                                                                         *)
(* A handler that blocks on a daemon call is split at that call: one step  *)
(* issues the request, the next receives the daemon's answer and runs the  *)
(* handler to its next call or to its return.  Handlers of different       *)
(* resource instances interleave at these points, as they do when the      *)
(* host tool walks independent resources in parallel.                      *)
(***************************************************************************)
EXTENDS Integers, Sequences, FiniteSets, TLC

\* ---------------------------------------------------------------- bounds
NumInstances == 2      \* resource instances the host tool drives
NumHosts == 2          \* distinct well-formed host strings
MaxFamilies == 2       \* longest families list the daemon reports

Instances == 1..NumInstances
ModelNames == {"old-model", "new-model"}
GoodHosts == {"host" \o ToString(k) : k \in 1..NumHosts}
\* a non-empty host string the client constructor rejects
BadHost == "host:badport"
HostStrings == {""} \cup GoodHosts \cup {BadHost}

\* ------------------------------------------- framework attribute values
StringNull == [state |-> "null", value |-> ""]
StringUnknown == [state |-> "unknown", value |-> ""]
StringValue(s) == [state |-> "known", value |-> s]
IsNull(v) == v.state = "null"
IsUnknown(v) == v.state = "unknown"
ValueString(v) == IF v.state = "known" THEN v.value ELSE ""
Int64Null == [state |-> "null", value |-> 0]
Int64Value(n) == [state |-> "known", value |-> n]

\* diagnostics: a sequence of [severity, attribute, summary]
NoDiags == << >>
ErrorDiag(summary) == [severity |-> "error", attribute |-> "", summary |-> summary]
AttributeErrorDiag(attr, summary) == [severity |-> "error", attribute |-> attr, summary |-> summary]
HasError(ds) == \E k \in 1..Len(ds) : ds[k].severity = "error"

\* *api.Client: nil, or a client bound to a host
NilClient == [isNil |-> TRUE, host |-> ""]
ClientFor(h) == [isNil |-> FALSE, host |-> h]

VARIABLES
  envHost,      \* OLLAMA_HOST in the process environment ("" when unset)
  envAtEntry,   \* OLLAMA_HOST as the last provider Configure found it
  cfgHost,      \* config.Host handed to the last provider Configure
  provResp,     \* provider.ConfigureResponse of the last provider Configure
  rClient,      \* ollamaModelResource.client, per resource instance
  dClient,      \* OllamaModelDataSource.client
  daemon,       \* names of the models the daemon holds
  catalog,      \* what the daemon reports about each model name
  tfstate,      \* persisted state of each resource instance
  pc,           \* where each resource instance's handler stands
  plan,         \* req.Plan of the handler in progress
  calls,        \* daemon calls of the handler in progress
  returned      \* the handler that returned last, and its response

vars == <<envHost, envAtEntry, cfgHost, provResp, rClient, dClient, daemon,
          catalog, tfstate, pc, plan, calls, returned>>

provVars == <<envHost, envAtEntry, cfgHost, provResp>>
clientVars == <<rClient, dClient>>
resVars == <<tfstate, pc, plan, calls, returned>>

\* ------------------------------------------------------ provider.go
ConfigHosts == {StringNull, StringUnknown} \cup {StringValue(h) : h \in HostStrings}

FreshProvResp == [diags |-> NoDiags, resourceData |-> NilClient, dataSourceData |-> NilClient]

\* api.ClientFromEnvironment: reads OLLAMA_HOST; fails on a malformed host
ClientFromEnvironment(env) ==
  IF env = BadHost THEN [client |-> NilClient, err |-> TRUE]
  ELSE [client |-> ClientFor(env), err |-> FALSE]


\* variant: the environment variable wins over the configuration
ResolveHostEnvFirst(config, env) == IF env # "" THEN env ELSE ValueString(config)
\* host := os.Getenv("OLLAMA_HOST"); if !config.Host.IsNull() { host = ... }
ResolveHost(config, env) == IF ~IsNull(config) THEN ValueString(config) ELSE env


\* variant: the check for an empty host is missing
ProviderConfigureNoMissingCheck(config, env) ==
  IF IsUnknown(config)
    THEN [resp |-> [FreshProvResp EXCEPT !.diags =
                      <<AttributeErrorDiag("host", "Unknown HashiCups API Host")>>],
          env |-> env]
  ELSE LET host == ResolveHost(config, env)
           made == ClientFromEnvironment(host) IN
  IF made.err
    THEN [resp |-> [FreshProvResp EXCEPT !.diags =
                      <<AttributeErrorDiag("host", "Error creating ollama client")>>],
          env |-> host]
    ELSE [resp |-> [FreshProvResp EXCEPT !.dataSourceData = made.client,
                                         !.resourceData = made.client],
          env |-> host]
\* OllamaProvider.Configure as a function of its inputs: the response it
\* fills and the value it leaves in OLLAMA_HOST
ProviderConfigure(config, env) ==
  IF IsUnknown(config)
    THEN [resp |-> [FreshProvResp EXCEPT !.diags =
                      <<AttributeErrorDiag("host", "Unknown HashiCups API Host")>>],
          env |-> env]
  ELSE LET host == ResolveHost(config, env) IN
  IF host = ""
    THEN [resp |-> [FreshProvResp EXCEPT !.diags =
                      <<AttributeErrorDiag("host", "Missing HashiCups API Host")>>],
          env |-> env]
  ELSE LET made == ClientFromEnvironment(host) IN
  IF made.err
    THEN [resp |-> [FreshProvResp EXCEPT !.diags =
                      <<AttributeErrorDiag("host", "Error creating ollama client")>>],
          env |-> host]
    ELSE [resp |-> [FreshProvResp EXCEPT !.dataSourceData = made.client,
                                         !.resourceData = made.client],
          env |-> host]

Configure ==
  \E config \in ConfigHosts :
    LET out == ProviderConfigure(config, envHost) IN
    /\ cfgHost' = config
    /\ envAtEntry' = envHost
    /\ provResp' = out.resp
    /\ envHost' = out.env
    /\ UNCHANGED <<clientVars, daemon, catalog, resVars>>

\* ollamaModelResource.Configure: keeps the old client when ProviderData is nil
ResourceConfigureClient(old, providerData) ==
  IF providerData.isNil THEN old ELSE providerData

ResourceConfigure(i) ==
  /\ rClient' = [rClient EXCEPT ![i] = ResourceConfigureClient(@, provResp.resourceData)]
  /\ UNCHANGED <<provVars, dClient, daemon, catalog, resVars>>

\* OllamaModelDataSource.Configure
DataSourceConfigureClient(old, providerData) ==
  IF providerData.isNil THEN old ELSE providerData

DataSourceConfigure ==
  /\ dClient' = DataSourceConfigureClient(dClient, provResp.dataSourceData)
  /\ UNCHANGED <<provVars, rClient, daemon, catalog, resVars>>

\* ------------------------------------------------------------ the daemon
\* What the daemon holds about a model: the fields of api.ListModelResponse
\* and api.ModelDetails.  Times are counted in whole seconds.
FamilyNames == {"a", "b"}
FamiliesLists == UNION {[1..n -> FamilyNames] : n \in 0..MaxFamilies}
DaemonModel(n, fams) ==
  [name |-> n, modified_at |-> 7, size |-> 42, digest |-> "sha256:" \o n,
   details |-> [format |-> "gguf", family |-> "llama", families |-> fams,
                parameter_size |-> "7B", quantization_level |-> "Q4_0"]]
DefaultCatalog == [n \in ModelNames |-> DaemonModel(n, <<"a", "b">>)]
Catalogs == {[n \in ModelNames |-> DaemonModel(n, f[n])] : f \in [ModelNames -> FamiliesLists]}

\* a daemon call as a handler records it: result is "pending" until the
\* daemon answers, then "ok", "notfound" (api.StatusError 404) or "err"
Call(op, n) == [op |-> op, name |-> n, result |-> "pending"]
Answered(cs, result) == [cs EXCEPT ![Len(cs)].result = result]

\* the answers the daemon can give, and what each does to the daemon
PullResults(d, n) == {"ok", "err"}
DeleteResults(d, n) == IF n \in d THEN {"ok", "err"} ELSE {"err"}
ShowResults(d, n) == IF n \in d THEN {"ok", "err"} ELSE {"notfound", "err"}
AfterPull(d, n, result) == IF result = "ok" THEN d \cup {n} ELSE d
AfterDelete(d, n, result) == IF result = "ok" THEN d \ {n} ELSE d

\* time.Time.String() of a time counted in seconds
TimeString(t) == "1970-01-01 00:00:" \o ToString(t) \o " +0000 UTC"

\* api.ShowResponse for a model the daemon holds
ShowResponse(cat, n) ==
  [modified_at |-> cat[n].modified_at, size |-> cat[n].size,
   digest |-> cat[n].digest, details |-> cat[n].details]

\* ----------------------------------------------------------- domain.go
OllamaModelResource(name, modifiedAt, size, digest) ==
  [name |-> name, modified_at |-> modifiedAt, size |-> size, digest |-> digest]
NullObject == OllamaModelResource(StringNull, StringNull, Int64Null, StringNull)

\* tfsdk.State / tfsdk.Plan of the resource: a null raw value, or an object
StateNull == [isNull |-> TRUE, val |-> NullObject]
StateOf(obj) == [isNull |-> FALSE, val |-> obj]

\* the plans the user writes: name is required, the optional attributes are
\* left out
UserPlans ==
  {OllamaModelResource(StringValue(n), StringNull, Int64Null, StringNull) : n \in ModelNames}


\* ------------------------------------------- ollama_model_resource.go
\* the response object the framework hands to a handler
FreshResp(state) == [state |-> state, diags |-> NoDiags]


\* variant: the plan is stored even when Pull failed
CreateAfterPullAlwaysSet(r, p, result) ==
  IF result # "ok"
    THEN [r EXCEPT !.diags = Append(@, ErrorDiag("Error pulling model")),
                   !.state = StateOf(p)]
    ELSE [r EXCEPT !.state = StateOf(p)]
\* Create, after Pull returned
CreateAfterPull(r, p, result) ==
  IF result # "ok"
    THEN [r EXCEPT !.diags = Append(@, ErrorDiag("Error pulling model"))]
    ELSE [r EXCEPT !.state = StateOf(p)]


\* variant: not-found is reported like any other error
ReadAfterShowNoRemove(r, state, result, shown) ==
  IF result # "ok"
    THEN [r EXCEPT !.diags = Append(@, ErrorDiag("Error Reading Ollama Model"))]
    ELSE [r EXCEPT !.state = StateOf(state)]

\* variant: a successful Read overwrites the daemon-sourced attributes
ReadAfterShowRefresh(r, state, result, shown) ==
  IF result = "notfound" THEN [r EXCEPT !.state = StateNull]
  ELSE IF result # "ok"
    THEN [r EXCEPT !.diags = Append(@, ErrorDiag("Error Reading Ollama Model"))]
    ELSE [r EXCEPT !.state = StateOf([state EXCEPT
                      !.modified_at = StringValue(TimeString(shown.modified_at)),
                      !.size = Int64Value(shown.size),
                      !.digest = StringValue(shown.digest)])]
\* Read, after Show returned
ReadAfterShow(r, state, result, shown) ==
  IF result = "notfound" THEN [r EXCEPT !.state = StateNull]
  ELSE IF result # "ok"
    THEN [r EXCEPT !.diags = Append(@, ErrorDiag("Error Reading Ollama Model"))]
    ELSE [r EXCEPT !.state = StateOf(state)]


\* variant: the error of Delete is reported but the handler goes on
UpdateAfterDeleteGoOn(r, state, result) ==
  IF result # "ok"
    THEN [resp |-> [r EXCEPT !.diags = Append(@, ErrorDiag("Error deleting Ollama Model"))],
          returns |-> FALSE]
    ELSE [resp |-> r, returns |-> FALSE]
\* Update, after Delete of the old model returned
UpdateAfterDelete(r, state, result) ==
  IF result # "ok"
    THEN [resp |-> [r EXCEPT !.diags = Append(@, ErrorDiag("Error deleting Ollama Model"))],
          returns |-> TRUE]
    ELSE [resp |-> r, returns |-> FALSE]


\* variant: the plan is stored even when Pull failed
UpdateAfterPullAlwaysSet(r, p, result) ==
  IF result # "ok"
    THEN [r EXCEPT !.diags = Append(@, ErrorDiag("Error pulling model")),
                   !.state = StateOf(p)]
    ELSE [r EXCEPT !.state = StateOf(p)]
\* Update, after Pull of the new model returned
UpdateAfterPull(r, p, result) ==
  IF result # "ok"
    THEN [r EXCEPT !.diags = Append(@, ErrorDiag("Error pulling model"))]
    ELSE [r EXCEPT !.state = StateOf(p)]

\* Delete, after Delete returned; the framework removes the resource from
\* state when the handler returns without an error diagnostic
DeleteAfterDelete(r, state, result) ==
  IF result # "ok"
    THEN [r EXCEPT !.diags = Append(@, ErrorDiag("Error deleting Ollama Model"))]
    ELSE [r EXCEPT !.state = StateNull]

\* what the host tool holds once a handler has returned: who ran which
\* handler (0 is the data source), the state and plan it was given, the
\* daemon calls it made, and the response it filled.  created is the plan
\* of the Create that succeeded right before it on the same instance, null
\* when the handler before it was anything else.
Returned(who, op, prior, p, cs, r, created) ==
  [who |-> who, op |-> op, prior |-> prior, plan |-> p, calls |-> cs, resp |-> r,
   created |-> created]
NoReturn == Returned(0, "none", StateNull, NullObject, << >>, FreshResp(StateNull), StateNull)
CreatedOk(i) ==
  returned.who = i /\ returned.op = "Create" /\ returned.calls[1].result = "ok"
After(i) == IF CreatedOk(i) THEN StateOf(returned.plan) ELSE StateNull

Idle(i) == pc[i] = "idle" /\ ~rClient[i].isNil
StateName(i) == ValueString(tfstate[i].val.name)
PlanName(i) == ValueString(plan[i].name)

\* the handler of instance i returns response r: the host tool persists
\* r.state, and the handler's locals are gone
Return(i, op, cs, r) ==
  /\ returned' = Returned(i, op, tfstate[i], plan[i], cs, r, After(i))
  /\ tfstate' = [tfstate EXCEPT ![i] = r.state]
  /\ pc' = [pc EXCEPT ![i] = "idle"]
  /\ plan' = [plan EXCEPT ![i] = NullObject]
  /\ calls' = [calls EXCEPT ![i] = << >>]

CreateCall(i) ==
  /\ Idle(i) /\ tfstate[i].isNull
  /\ \E p \in UserPlans :
       /\ plan' = [plan EXCEPT ![i] = p]
       /\ calls' = [calls EXCEPT ![i] = <<Call("pull", ValueString(p.name))>>]
  /\ pc' = [pc EXCEPT ![i] = "create_pull"]
  /\ UNCHANGED <<provVars, clientVars, daemon, catalog, tfstate, returned>>

CreateReturn(i) ==
  /\ pc[i] = "create_pull"
  /\ \E result \in PullResults(daemon, PlanName(i)) :
       /\ daemon' = AfterPull(daemon, PlanName(i), result)
       /\ Return(i, "Create", Answered(calls[i], result),
                 CreateAfterPull(FreshResp(StateNull), plan[i], result))
  /\ UNCHANGED <<provVars, clientVars, catalog>>

ReadCall(i) ==
  /\ Idle(i) /\ ~tfstate[i].isNull
  /\ calls' = [calls EXCEPT ![i] = <<Call("show", StateName(i))>>]
  /\ pc' = [pc EXCEPT ![i] = "read_show"]
  /\ UNCHANGED <<provVars, clientVars, daemon, catalog, tfstate, plan, returned>>

ReadReturn(i) ==
  /\ pc[i] = "read_show"
  /\ \E result \in ShowResults(daemon, StateName(i)) :
       Return(i, "Read", Answered(calls[i], result),
              ReadAfterShow(FreshResp(tfstate[i]), tfstate[i].val, result,
                            ShowResponse(catalog, StateName(i))))
  /\ UNCHANGED <<provVars, clientVars, daemon, catalog>>

UpdateCall(i) ==
  /\ Idle(i) /\ ~tfstate[i].isNull
  /\ \E p \in UserPlans \ {tfstate[i].val} : plan' = [plan EXCEPT ![i] = p]
  /\ calls' = [calls EXCEPT ![i] = <<Call("delete", StateName(i))>>]
  /\ pc' = [pc EXCEPT ![i] = "update_delete"]
  /\ UNCHANGED <<provVars, clientVars, daemon, catalog, tfstate, returned>>

UpdateDeleteReturn(i) ==
  /\ pc[i] = "update_delete"
  /\ \E result \in DeleteResults(daemon, StateName(i)) :
       LET u == UpdateAfterDelete(FreshResp(tfstate[i]), tfstate[i].val, result) IN
       /\ daemon' = AfterDelete(daemon, StateName(i), result)
       /\ IF u.returns
            THEN Return(i, "Update", Answered(calls[i], result), u.resp)
            ELSE /\ calls' = [calls EXCEPT ![i] =
                                Append(Answered(@, result), Call("pull", PlanName(i)))]
                 /\ pc' = [pc EXCEPT ![i] = "update_pull"]
                 /\ UNCHANGED <<tfstate, plan, returned>>
  /\ UNCHANGED <<provVars, clientVars, catalog>>

UpdatePullReturn(i) ==
  /\ pc[i] = "update_pull"
  /\ \E result \in PullResults(daemon, PlanName(i)) :
       /\ daemon' = AfterPull(daemon, PlanName(i), result)
       /\ Return(i, "Update", Answered(calls[i], result),
                 UpdateAfterPull(FreshResp(tfstate[i]), plan[i], result))
  /\ UNCHANGED <<provVars, clientVars, catalog>>

DeleteCall(i) ==
  /\ Idle(i) /\ ~tfstate[i].isNull
  /\ calls' = [calls EXCEPT ![i] = <<Call("delete", StateName(i))>>]
  /\ pc' = [pc EXCEPT ![i] = "delete_delete"]
  /\ UNCHANGED <<provVars, clientVars, daemon, catalog, tfstate, plan, returned>>

DeleteReturn(i) ==
  /\ pc[i] = "delete_delete"
  /\ \E result \in DeleteResults(daemon, StateName(i)) :
       /\ daemon' = AfterDelete(daemon, StateName(i), result)
       /\ Return(i, "Delete", Answered(calls[i], result),
                 DeleteAfterDelete(FreshResp(tfstate[i]), tfstate[i].val, result))
  /\ UNCHANGED <<provVars, clientVars, catalog>>

\* --------------------------------------- ollama_model_data_source.go
\* the orders in which the daemon can list the models it holds
RECURSIVE Orderings(_)
Orderings(S) ==
  IF S = {} THEN {<< >>}
  ELSE UNION {{<<n>> \o rest : rest \in Orderings(S \ {n})} : n \in S}

\* api.ListResponse.Models for a daemon holding d, listed in order ord
ListModels(cat, ord) == [k \in 1..Len(ord) |-> cat[ord[k]]]

\* types.ListValueFrom(ctx, types.StringType, xs)
ListValueFrom(xs) == [state |-> "known", elems |-> [k \in 1..Len(xs) |-> StringValue(xs[k])]]

\* the OllamaModel the loop body builds from one api.ListModelResponse
OllamaModel(m) ==
  [name |-> StringValue(m.name),
   modified_at |-> StringValue(TimeString(m.modified_at)),
   size |-> Int64Value(m.size),
   digest |-> StringValue(m.digest),
   details |-> [format |-> StringValue(m.details.format),
                family |-> StringValue(m.details.family),
                families |-> ListValueFrom(m.details.families),
                parameter_size |-> StringValue(m.details.parameter_size),
                quantization_level |-> StringValue(m.details.quantization_level)]]

\* variant: each model is put in front of the ones before it
RECURSIVE AppendModelsInFront(_, _)
AppendModelsInFront(dataModels, rspModels) ==
  IF rspModels = << >> THEN dataModels
  ELSE AppendModelsInFront(<<OllamaModel(Head(rspModels))>> \o dataModels, Tail(rspModels))

\* for _, m := range rsp.Models { data.Models = append(data.Models, ...) }
RECURSIVE AppendModels(_, _)
AppendModels(dataModels, rspModels) ==
  IF rspModels = << >> THEN dataModels
  ELSE AppendModels(Append(dataModels, OllamaModel(Head(rspModels))), Tail(rspModels))

\* the data source's state: unset, or the models attribute
DataNull == [isNull |-> TRUE, models |-> << >>]
DataOf(models) == [isNull |-> FALSE, models |-> models]
FreshDataResp == [state |-> DataNull, diags |-> NoDiags]

\* OllamaModelDataSource.Read, after List returned
ReadAfterList(r, result, rspModels) ==
  IF result # "ok"
    THEN [r EXCEPT !.diags = Append(@, ErrorDiag("Client Error"))]
    ELSE [r EXCEPT !.state = DataOf(AppendModels(<< >>, rspModels))]

ListResults(d) == {"ok", "err"}

\* a List call and the api.ListResponse.Models it was answered with
ListCall(result, rspModels) ==
  [op |-> "list", name |-> "", result |-> result, models |-> rspModels]

\* the List call does not change the daemon, so the handler is one step
DataSourceRead ==
  /\ ~dClient.isNil
  /\ \E result \in ListResults(daemon), ord \in Orderings(daemon) :
       LET rspModels == IF result = "ok" THEN ListModels(catalog, ord) ELSE << >> IN
       returned' = Returned(0, "DataRead", StateNull, NullObject,
                            <<ListCall(result, rspModels)>>,
                            ReadAfterList(FreshDataResp, result, rspModels), StateNull)
  /\ UNCHANGED <<provVars, clientVars, daemon, catalog, tfstate, pc, plan, calls>>

\* ------------------------------------------------------ specifications
SomeHost == CHOOSE h \in GoodHosts : TRUE

ResourceInit ==
  /\ tfstate = [i \in Instances |-> StateNull]
  /\ pc = [i \in Instances |-> "idle"]
  /\ plan = [i \in Instances |-> NullObject]
  /\ calls = [i \in Instances |-> << >>]
  /\ returned = NoReturn

\* the provider is configured and has handed its client to every resource
\* instance and to the data source; the daemon holds any set of models
ConfiguredInit ==
  /\ envAtEntry = ""
  /\ cfgHost = StringValue(SomeHost)
  /\ provResp = ProviderConfigure(StringValue(SomeHost), "").resp
  /\ envHost = ProviderConfigure(StringValue(SomeHost), "").env
  /\ rClient = [i \in Instances |-> ClientFor(SomeHost)]
  /\ dClient = ClientFor(SomeHost)

Init ==
  /\ ConfiguredInit
  /\ ResourceInit
  /\ daemon \in SUBSET ModelNames
  /\ catalog = DefaultCatalog

Next ==
  \/ \E i \in Instances : CreateCall(i)
  \/ \E i \in Instances : CreateReturn(i)
  \/ \E i \in Instances : ReadCall(i)
  \/ \E i \in Instances : ReadReturn(i)
  \/ \E i \in Instances : UpdateCall(i)
  \/ \E i \in Instances : UpdateDeleteReturn(i)
  \/ \E i \in Instances : UpdatePullReturn(i)
  \/ \E i \in Instances : DeleteCall(i)
  \/ \E i \in Instances : DeleteReturn(i)
  \/ DataSourceRead

Spec == Init /\ [][Next]_vars

\* the provider before it is configured, under any OLLAMA_HOST
ProviderInit ==
  /\ envHost \in HostStrings
  /\ envAtEntry = envHost
  /\ cfgHost = StringNull
  /\ provResp = FreshProvResp
  /\ rClient = [i \in Instances |-> NilClient]
  /\ dClient = NilClient
  /\ ResourceInit
  /\ daemon = {}
  /\ catalog = DefaultCatalog

ProviderNext ==
  \/ Configure
  \/ \E i \in Instances : ResourceConfigure(i)
  \/ DataSourceConfigure

SpecProvider == ProviderInit /\ [][ProviderNext]_vars

\* the data source against a daemon holding any models with any families
DataSourceInit ==
  /\ ConfiguredInit
  /\ ResourceInit
  /\ daemon \in SUBSET ModelNames
  /\ catalog \in Catalogs

DataSourceNext == DataSourceRead

SpecDataSource == DataSourceInit /\ [][DataSourceNext]_vars

\* ------------------------------------------------------------ properties
LastCall(cs) == cs[Len(cs)]
Ret(op) == returned.op = op
RetResult == LastCall(returned.calls).result
RetError == HasError(returned.resp.diags)
Persisted == tfstate[returned.who]

\* the daemon calls of an Update from state st to plan p, in flight or
\* returned: Delete of the old name comes first, Pull of the new name is
\* issued only once that Delete has returned without error
UpdateCallsOrdered(cs, st, p) ==
  /\ Len(cs) \in 1..2
  /\ cs[1].op = "delete" /\ cs[1].name = ValueString(st.val.name)
  /\ \A k \in 1..Len(cs) :
       cs[k].op = "pull" =>
         /\ k = 2
         /\ cs[k].name = ValueString(p.name)
         /\ cs[1].result = "ok"
  /\ cs[1].result = "err" => Len(cs) = 1

\* C1: in every Update the delete of the old name is issued and has returned
\* before a pull of the new name is issued; when that delete fails no pull is
\* issued, an error diagnostic is reported and the persisted state is the
\* state from before the Update.
C1_UpdateDeleteThenPull ==
  /\ \A i \in Instances :
       pc[i] \in {"update_delete", "update_pull"} =>
         UpdateCallsOrdered(calls[i], tfstate[i], plan[i])
  /\ Ret("Update") =>
       /\ UpdateCallsOrdered(returned.calls, returned.prior, returned.plan)
       /\ returned.calls[1].result = "err" =>
            /\ RetError
            /\ returned.resp.state = returned.prior
            /\ Persisted = returned.prior

\* an Update from "old-model" to "new-model" whose delete failed has returned
C1_Witness ==
  /\ Ret("Update")
  /\ returned.calls[1].result = "err"
  /\ ValueString(returned.prior.val.name) = "old-model"
  /\ ValueString(returned.plan.name) = "new-model"

\* C2: whenever Show answers a Read with not-found, the resource is removed
\* from the persisted state and no error diagnostic is emitted.
C2_ReadNotFoundRemoves ==
  (Ret("Read") /\ RetResult = "notfound") =>
    /\ returned.resp.state.isNull
    /\ Persisted.isNull
    /\ ~RetError

\* a Read of a model in state was answered with not-found
C2_Witness ==
  /\ Ret("Read") /\ RetResult = "notfound"
  /\ ~returned.prior.isNull
  /\ returned.calls[1].name = ValueString(returned.prior.val.name)

\* the outcome of the provider's Configure that the host tool sees
Configured == provResp # FreshProvResp
HostKnown == ~IsNull(cfgHost) /\ ~IsUnknown(cfgHost)

\* C3: a configured host that is present decides the outcome of Configure
\* whatever OLLAMA_HOST holds, and when it is non-empty it is the resolved
\* host; with no configured host and a non-empty OLLAMA_HOST the resolved
\* host is the environment's value.
C3_ConfigHostPrecedence ==
  Configured =>
    /\ HostKnown =>
         \A e \in HostStrings : ProviderConfigure(cfgHost, e).resp = provResp
    /\ (HostKnown /\ ValueString(cfgHost) # "") =>
         /\ envHost = ValueString(cfgHost)
         /\ ~HasError(provResp.diags) => provResp.resourceData = ClientFor(ValueString(cfgHost))
    /\ (IsNull(cfgHost) /\ envAtEntry # "") =>
         /\ envHost = envAtEntry
         /\ ~HasError(provResp.diags) => provResp.resourceData = ClientFor(envAtEntry)

\* Configure ran with a configured host and a different, non-empty OLLAMA_HOST
C3_Witness ==
  /\ Configured /\ HostKnown
  /\ ValueString(cfgHost) \in GoodHosts
  /\ envAtEntry \in GoodHosts \ {ValueString(cfgHost)}
  /\ provResp.resourceData = ClientFor(ValueString(cfgHost))

\* C4: Configure with an unknown host, or with no non-empty host in the
\* configuration and none in OLLAMA_HOST, reports an error on the host
\* attribute, stops before it touches the environment, and hands no client
\* to resources or data sources.
C4_ConfigureFailsWithoutHost ==
  (Configured /\ (IsUnknown(cfgHost) \/ (ValueString(cfgHost) = "" /\ envAtEntry = ""))) =>
    /\ HasError(provResp.diags)
    /\ \A k \in 1..Len(provResp.diags) : provResp.diags[k].attribute = "host"
    /\ provResp.resourceData = NilClient
    /\ provResp.dataSourceData = NilClient
    /\ envHost = envAtEntry

\* Configure ran with an unknown host while OLLAMA_HOST held a usable host
C4_Witness ==
  /\ Configured /\ IsUnknown(cfgHost)
  /\ envAtEntry \in GoodHosts

FamiliesOf(entry) ==
  [j \in 1..Len(entry.details.families.elems) |-> ValueString(entry.details.families.elems[j])]

C7_ReadReflectsDaemon ==
  (Ret("Read") /\ RetResult = "ok") =>
    LET shown == ShowResponse(catalog, returned.calls[1].name) IN
    /\ Persisted.val.modified_at = StringValue(TimeString(shown.modified_at))
    /\ Persisted.val.size = Int64Value(shown.size)
    /\ Persisted.val.digest = StringValue(shown.digest)

\* the model names the handler in progress on instance i works on
NamesInProgress(i) ==
  IF pc[i] = "idle" THEN {}
  ELSE {calls[i][k].name : k \in 1..Len(calls[i])}
       \cup (IF plan[i] = NullObject THEN {} ELSE {PlanName(i)})

\* C8: no two lifecycle operations are in progress on the same model name.
C8_OneOperationPerName ==
  \A i, j \in Instances :
    i # j => NamesInProgress(i) \cap NamesInProgress(j) = {}

\* C9: outside Update a daemon error leaves the state as it was and is
\* reported: a failed Pull in Create leaves the resource absent, a failed
\* Show (other than not-found) in Read and a failed Delete in Delete leave
\* the persisted state unchanged, a failed List writes no models.
C9_DaemonErrorLeavesState ==
  /\ (Ret("Create") /\ RetResult = "err") =>
       RetError /\ returned.resp.state.isNull /\ Persisted.isNull
  /\ (Ret("Read") /\ RetResult = "err") =>
       RetError /\ returned.resp.state = returned.prior /\ Persisted = returned.prior
  /\ (Ret("Delete") /\ RetResult = "err") =>
       RetError /\ ~Persisted.isNull /\ Persisted = returned.prior
  /\ (Ret("DataRead") /\ RetResult = "err") =>
       RetError /\ returned.resp.state = DataNull

\* a Create whose Pull failed has returned
C9_Witness ==
  /\ Ret("Create") /\ RetResult = "err"
  /\ returned.calls[1].op = "pull"
  /\ returned.calls[1].name = ValueString(returned.plan.name)

\* a step in which the Update of instance i gets the answer to its Pull
UpdatePullAnswered(i) == pc[i] = "update_pull" /\ pc'[i] = "idle"

\* C10: when an Update's delete succeeded the daemon no longer holds the old
\* model; when its pull then fails the Update returns at once with an error
\* diagnostic, makes no further daemon call and changes nothing in the
\* daemon, and the persisted state still names the old model.
C10_UpdatePullFailureNoRollback ==
  [][\A i \in Instances :
       /\ (pc[i] = "update_delete" /\ pc'[i] = "update_pull") =>
            StateName(i) \notin daemon'
       /\ (UpdatePullAnswered(i) /\ LastCall(returned'.calls).result = "err") =>
            /\ returned'.who = i /\ returned'.op = "Update"
            /\ HasError(returned'.resp.diags)
            /\ returned'.calls = Answered(calls[i], "err")
            /\ Len(returned'.calls) = 2
            /\ daemon' = daemon
            /\ tfstate'[i] = tfstate[i]
            /\ ValueString(tfstate'[i].val.name) = calls[i][1].name]_vars

\* an Update lost the old model and failed to pull the new one: the state
\* names a model the daemon does not hold
C10_Witness ==
  /\ Ret("Update") /\ Len(returned.calls) = 2
  /\ returned.calls[1].result = "ok" /\ returned.calls[2].result = "err"
  /\ StateName(returned.who) = returned.calls[1].name
  /\ StateName(returned.who) \notin daemon

====
